---- MODULE Spec2Model ----
(***************************************************************************)
(* CarbonFlow AI engine: the two analytical engines (CarbonPredictor,      *)
(* SatelliteAnalyzer) and the verification aggregator                      *)
(* (verify_carbon_project) of src/ai-engine.                               *)
(*                                                                         *)
(* Floating-point values are modelled as exact rationals <<num, den>>      *)
(* with den > 0, kept in lowest terms.                                     *)
(***************************************************************************)
EXTENDS Integers, Sequences, FiniteSets, TLC

(***************************************************************************)
(* Rational arithmetic                                                     *)
(***************************************************************************)
Abs(x) == IF x < 0 THEN -x ELSE x

RECURSIVE GCD(_, _)
GCD(a, b) == IF b = 0 THEN a ELSE GCD(b, a % b)

Rat(n, d) ==
    LET g == GCD(Abs(n), Abs(d))
        s == IF d < 0 THEN -1 ELSE 1
    IN  IF n = 0 THEN <<0, 1>> ELSE <<s * (n \div g), s * (d \div g)>>

Pct(p) == Rat(p, 100)
RZero == <<0, 1>>
ROne == <<1, 1>>
RAdd(a, b) == Rat(a[1] * b[2] + b[1] * a[2], a[2] * b[2])
RSub(a, b) == Rat(a[1] * b[2] - b[1] * a[2], a[2] * b[2])
RMul(a, b) == Rat(a[1] * b[1], a[2] * b[2])
RDiv(a, b) == Rat(a[1] * b[2], a[2] * b[1])
RLt(a, b) == a[1] * b[2] < b[1] * a[2]
RGt(a, b) == RLt(b, a)
RLe(a, b) == ~RLt(b, a)
RGe(a, b) == ~RLt(a, b)
RMin(a, b) == IF RLt(b, a) THEN b ELSE a
RMax(a, b) == IF RGt(b, a) THEN b ELSE a

RECURSIVE RSum(_)
RSum(s) == IF s = <<>> THEN RZero ELSE RAdd(Head(s), RSum(Tail(s)))

\* np.mean of a non-empty list
RMean(s) == RDiv(RSum(s), <<Len(s), 1>>)

(***************************************************************************)
(* Bounds of the model                                                     *)
(***************************************************************************)
MaxLoads == 2      \* calls of load_model per engine, the constructor's included
MaxImages == 2     \* images the image provider returns for one area
MaxBatch == 2      \* images in one batch_analyze call
MaxSeries == 2     \* 30-day periods between start_date and end_date

(***************************************************************************)
(* Artifacts on disk                                                       *)
(***************************************************************************)
FileStates == {"absent", "good", "corrupt"}

VARIABLES
    fs,                 \* artifacts on disk: model, scaler, cnn
    cp,                 \* the CarbonPredictor object
    sa,                 \* the SatelliteAnalyzer object
    loads,              \* load_model calls made so far, per engine
    last,               \* the last engine call: operation, arguments, outcome
    request,            \* the ProjectData of the verification request
    pc,                 \* position of verify_carbon_project
    task,               \* the three coroutines handed to asyncio.gather
    order,              \* completion order of the three coroutines
    response,           \* what verify_carbon_project gave its caller
    background_tasks,   \* tasks added to BackgroundTasks, not yet run
    db,                 \* records saved by save_verification_result
    log                 \* logger.error lines of main.py

engineVars == <<fs, cp, sa, loads, last>>
verifyVars == <<request, pc, task, order, response, background_tasks, db, log>>
vars == <<fs, cp, sa, loads, last, request, pc, task, order, response,
          background_tasks, db, log>>

(***************************************************************************)
(* Outcome of a call: a returned value or a raised exception               *)
(***************************************************************************)
Ok(v) == [raised |-> FALSE, error |-> "", value |-> v]
Raise(e) == [raised |-> TRUE, error |-> e, value |-> <<>>]

(***************************************************************************)
(* CarbonPredictor: construction and load_model                            *)
(***************************************************************************)
\* __init__ up to the call of load_model: the Unloaded predictor
CarbonPredictorNew ==
    [phase |-> "init", model |-> "None", scaler |-> "unfitted",
     is_model_loaded |-> FALSE]

TrainOutcomes == {"ok", "raise_data", "raise_fit"}
DumpOutcomes == {"ok", "model_noent", "model_partial", "scaler_noent", "scaler_partial"}

\* The two joblib.dump calls of _create_carbon_model, inside its try/except:
\* a dump that cannot open its file leaves it as it was, a dump that fails
\* midway leaves a truncated file, and the scaler is dumped only after the
\* model was.
SaveModel(files, dump) ==
    CASE dump = "ok" -> [files EXCEPT !.model = "good", !.scaler = "good"]
      [] dump = "model_noent" -> files
      [] dump = "model_partial" -> [files EXCEPT !.model = "corrupt"]
      [] dump = "scaler_noent" -> [files EXCEPT !.model = "good"]
      [] dump = "scaler_partial" -> [files EXCEPT !.model = "good", !.scaler = "corrupt"]

\* _create_carbon_model: returns the trained model, or raises; the scaler
\* is fitted in place before the model is
CreateCarbonModel(self, files, train, dump) ==
    CASE train = "raise_data" ->
            [self |-> self, fs |-> files, raised |-> TRUE, model |-> "None"]
      [] train = "raise_fit" ->
            [self |-> [self EXCEPT !.scaler = "fitted"], fs |-> files,
             raised |-> TRUE, model |-> "None"]
      [] OTHER ->
            [self |-> [self EXCEPT !.scaler = "fitted"],
             fs |-> SaveModel(files, dump), raised |-> FALSE, model |-> "trained"]

\* The except FileNotFoundError branch of load_model. An exception raised
\* by _create_carbon_model inside this handler is not caught by the sibling
\* except Exception clause: it leaves load_model.
CarbonLoadMissing(self, files, train, dump) ==
    LET c == CreateCarbonModel(self, files, train, dump)
    IN  IF c.raised
        THEN [self |-> c.self, fs |-> c.fs, raised |-> TRUE, branch |-> "create"]
        ELSE [self |-> [c.self EXCEPT !.model = c.model, !.is_model_loaded = TRUE],
              fs |-> c.fs, raised |-> FALSE, branch |-> "create"]

\* CarbonPredictor.load_model
CarbonLoadModel(self, files, train, dump) ==
    CASE files.model = "absent" -> CarbonLoadMissing(self, files, train, dump)
      [] files.model = "corrupt" ->
            [self |-> [self EXCEPT !.is_model_loaded = FALSE],
             fs |-> files, raised |-> FALSE, branch |-> "error"]
      [] files.scaler = "absent" ->
            CarbonLoadMissing([self EXCEPT !.model = "artifact"], files, train, dump)
      [] files.scaler = "corrupt" ->
            [self |-> [self EXCEPT !.model = "artifact", !.is_model_loaded = FALSE],
             fs |-> files, raised |-> FALSE, branch |-> "error"]
      [] OTHER ->
            [self |-> [self EXCEPT !.model = "artifact", !.scaler = "artifact",
                                   !.is_model_loaded = TRUE],
             fs |-> files, raised |-> FALSE, branch |-> "load"]

\* CarbonPredictor.is_loaded
CarbonIsLoaded(self) == self.is_model_loaded /\ self.model # "None"

(***************************************************************************)
(* SatelliteAnalyzer: construction and load_model                          *)
(***************************************************************************)
SatelliteAnalyzerNew ==
    [phase |-> "init", model |-> "None", is_model_loaded |-> FALSE]

CreateOutcomes == {"ok", "raise"}

\* SatelliteAnalyzer.load_model: the created network is never written to
\* model_path
SatelliteLoadModel(self, files, create) ==
    CASE files.cnn = "good" ->
            [self |-> [self EXCEPT !.model = "artifact", !.is_model_loaded = TRUE],
             fs |-> files, raised |-> FALSE, branch |-> "load"]
      [] files.cnn = "corrupt" ->
            [self |-> [self EXCEPT !.is_model_loaded = FALSE],
             fs |-> files, raised |-> FALSE, branch |-> "error"]
      [] create = "raise" ->
            [self |-> [self EXCEPT !.is_model_loaded = FALSE],
             fs |-> files, raised |-> FALSE, branch |-> "create_error"]
      [] OTHER ->
            [self |-> [self EXCEPT !.model = "created", !.is_model_loaded = TRUE],
             fs |-> files, raised |-> FALSE, branch |-> "create"]

\* SatelliteAnalyzer.is_loaded
SatelliteIsLoaded(self) == self.is_model_loaded /\ self.model # "None"

(***************************************************************************)
(* SatelliteAnalyzer: inference                                            *)
(***************************************************************************)
vegetation_classes ==
    <<"no_vegetation", "sparse_vegetation", "moderate_vegetation",
      "dense_vegetation", "forest", "deforestation", "reforestation">>

\* An image is what the analyzer can observe of it: whether cv2.resize
\* accepts it, the class probabilities (percent) the network gives it, and
\* the percentage of its pixels whose vegetation index exceeds 0.2.
Image(malformed, probs, cov) == [malformed |-> malformed, probs |-> probs, cov |-> cov]

ImgForest == Image(FALSE, <<0, 0, 0, 15, 85, 0, 0>>, 70)
ImgMixed == Image(FALSE, <<0, 0, 0, 0, 80, 20, 0>>, 70)
ImgDense == Image(FALSE, <<0, 10, 0, 90, 0, 0, 0>>, 60)
ImgBare == Image(FALSE, <<70, 30, 0, 0, 0, 0, 0>>, 10)
ImgMalformed == Image(TRUE, <<0, 0, 0, 0, 0, 0, 0>>, 0)

Images == {ImgForest, ImgMixed, ImgDense, ImgBare, ImgMalformed}

\* Sequences over S of length lo..hi
SeqsOf(S, lo, hi) == UNION {[1..n -> S] : n \in lo..hi}

\* np.argmax: the first index holding the maximum
ArgMax(probs) ==
    CHOOSE i \in 1..Len(probs) :
        /\ \A j \in 1..Len(probs) : probs[j] <= probs[i]
        /\ \A j \in 1..(i - 1) : probs[j] < probs[i]

\* The float nan, as the quotient 0/0: every comparison with it is false
NaN == <<0, 0>>

\* An image tensor as _calculate_vegetation_coverage reads it: the number
\* of its dimensions, of its channels (0 for a two-dimensional tensor) and
\* its pixels, each a tuple of channel values
Tensor(ndim, channels, pixels) ==
    [ndim |-> ndim, channels |-> channels, pixels |-> pixels]

\* cv2.cvtColor(image_data, cv2.COLOR_BGR2RGB): defined for tensors of
\* three dimensions with 3 or 4 channels; the first and third channel
\* change places and a fourth is dropped
CvtColorBGR2RGB(image_data) ==
    IF image_data.ndim = 3 /\ image_data.channels \in {3, 4}
    THEN Ok([i \in 1..Len(image_data.pixels) |->
                <<image_data.pixels[i][3], image_data.pixels[i][2],
                  image_data.pixels[i][1]>>])
    ELSE Raise("cv2.error")

\* ndvi > 0.2 for a pixel of integer channel values:
\* (g - r) / (g + r + 1e-8) > 0.2  iff  5 * (g - r) > g + r
IsVegetationPixel(pixel) ==
    LET red == pixel[1]
        green == pixel[2]
    IN  5 * (green - red) > green + red

\* SatelliteAnalyzer._calculate_vegetation_coverage
CalculateVegetationCoverage(image_data) ==
    LET rgb_image ==
            IF image_data.ndim = 3 /\ image_data.channels = 3
            THEN Ok(image_data.pixels)
            ELSE CvtColorBGR2RGB(image_data)
    IN  IF rgb_image.raised THEN RZero
        ELSE LET vegetation_pixels ==
                     Cardinality({i \in 1..Len(rgb_image.value) :
                                     IsVegetationPixel(rgb_image.value[i])})
                 total_pixels == Len(rgb_image.value)
                 coverage_percent ==
                     IF total_pixels = 0 THEN NaN
                     ELSE Rat(vegetation_pixels * 100, total_pixels)
             IN  RMin(coverage_percent, <<100, 1>>)

\* SatelliteAnalyzer._detect_changes
DetectChanges == [change_detected |-> FALSE, change_type |-> "no_change"]

\* SatelliteAnalyzer.analyze_single_image
AnalyzeSingleImage(self, image) ==
    IF ~self.is_model_loaded THEN Raise("CNN model not loaded")
    ELSE IF image.malformed THEN Raise("preprocess_image failed")
    ELSE LET idx == ArgMax(image.probs)
             max_confidence == Pct(image.probs[idx])
         IN  Ok([vegetation_detected |-> RGt(max_confidence, Pct(70)),
                 predicted_class |-> vegetation_classes[idx],
                 confidence |-> max_confidence,
                 vegetation_coverage_percent |-> Rat(image.cov, 1),
                 class_probabilities |-> image.probs,
                 change_detection |-> DetectChanges])

\* The loop over the images leaving out the images whose analysis raises
RECURSIVE AnalyzeEachSkipping(_, _, _)
AnalyzeEachSkipping(self, images, results) ==
    IF images = <<>> THEN Ok(results)
    ELSE LET r == AnalyzeSingleImage(self, Head(images))
         IN  AnalyzeEachSkipping(self, Tail(images),
                 IF r.raised THEN results ELSE Append(results, r.value))

\* The for loop of analyze_project_area and temporal_analysis: the first
\* image whose analysis raises ends the loop with that exception
RECURSIVE AnalyzeEach(_, _, _)
AnalyzeEach(self, images, results) ==
    IF images = <<>> THEN Ok(results)
    ELSE LET r == AnalyzeSingleImage(self, Head(images))
         IN  IF r.raised THEN r
             ELSE AnalyzeEach(self, Tail(images), Append(results, r.value))

\* conversion_factors of _calculate_co2_potential, in the order of
\* vegetation_classes (tonnes CO2 / hectare / year)
conversion_factors == <<0, 1, 3, 6, 10, -5, 8>>

RECURSIVE SumOver(_, _)
SumOver(f, n) == IF n = 0 THEN 0 ELSE f[n] + SumOver(f, n - 1)

\* _calculate_co2_potential dropping the negative contributions class by
\* class, before the weighted factor is formed
CalculateCO2PotentialFlooringEach(area_hectares, vegetation_coverage, analysis_results) ==
    LET n == Len(analysis_results)
        k == Len(vegetation_classes)
        potential == [i \in 1..n |->
            SumOver([c \in 1..k |->
                IF conversion_factors[c] < 0 THEN 0
                ELSE conversion_factors[c] * analysis_results[i].class_probabilities[c]], k)]
        confidence == [i \in 1..n |->
            SumOver(analysis_results[i].class_probabilities, k)]
        total_co2_potential == SumOver(potential, n)
        total_confidence == SumOver(confidence, n)
        weighted_co2_factor ==
            IF total_confidence > 0 THEN Rat(total_co2_potential, total_confidence)
            ELSE RZero
        vegetation_factor == RDiv(vegetation_coverage, <<100, 1>>)
        annual_co2_potential ==
            RMul(RMul(<<area_hectares, 1>>, weighted_co2_factor), vegetation_factor)
    IN  RMax(annual_co2_potential, RZero)

\* SatelliteAnalyzer._calculate_co2_potential
CalculateCO2Potential(area_hectares, vegetation_coverage, analysis_results) ==
    LET n == Len(analysis_results)
        k == Len(vegetation_classes)
        potential == [i \in 1..n |->
            SumOver([c \in 1..k |->
                conversion_factors[c] * analysis_results[i].class_probabilities[c]], k)]
        confidence == [i \in 1..n |->
            SumOver(analysis_results[i].class_probabilities, k)]
        total_co2_potential == SumOver(potential, n)
        total_confidence == SumOver(confidence, n)
        weighted_co2_factor ==
            IF total_confidence > 0 THEN Rat(total_co2_potential, total_confidence)
            ELSE RZero
        vegetation_factor == RDiv(vegetation_coverage, <<100, 1>>)
        annual_co2_potential ==
            RMul(RMul(<<area_hectares, 1>>, weighted_co2_factor), vegetation_factor)
    IN  RMax(annual_co2_potential, RZero)

\* analyze_project_area deciding vegetation_detected by the rule of a
\* single image
AnalyzeProjectAreaSingleRule(self, fetch, area_hectares) ==
    IF fetch.raised THEN fetch
    ELSE IF fetch.value = <<>>
    THEN Raise("No satellite images available for the specified area")
    ELSE LET a == AnalyzeEach(self, fetch.value, <<>>) IN
         IF a.raised THEN a
         ELSE LET analysis_results == a.value
                  n == Len(analysis_results)
                  avg_confidence ==
                      RMean([i \in 1..n |-> analysis_results[i].confidence])
                  avg_vegetation_coverage ==
                      RMean([i \in 1..n |-> analysis_results[i].vegetation_coverage_percent])
              IN  Ok([vegetation_detected |->
                          RGt(avg_confidence, Pct(70)),
                      confidence |-> avg_confidence,
                      vegetation_coverage_percent |-> avg_vegetation_coverage,
                      co2_sequestration_potential_tonnes_year |->
                          CalculateCO2Potential(area_hectares,
                              avg_vegetation_coverage, analysis_results),
                      images_analyzed |-> n,
                      detailed_analysis |-> analysis_results,
                      image_urls |-> [i \in 1..n |-> i - 1]])

\* SatelliteAnalyzer.analyze_project_area; fetch is what
\* _fetch_satellite_images gave: a list of images, or an exception
AnalyzeProjectArea(self, fetch, area_hectares) ==
    IF fetch.raised THEN fetch
    ELSE IF fetch.value = <<>>
    THEN Raise("No satellite images available for the specified area")
    ELSE LET a == AnalyzeEach(self, fetch.value, <<>>) IN
         IF a.raised THEN a
         ELSE LET analysis_results == a.value
                  n == Len(analysis_results)
                  avg_confidence ==
                      RMean([i \in 1..n |-> analysis_results[i].confidence])
                  avg_vegetation_coverage ==
                      RMean([i \in 1..n |-> analysis_results[i].vegetation_coverage_percent])
              IN  Ok([vegetation_detected |->
                          /\ RGt(avg_confidence, Pct(80))
                          /\ RGt(avg_vegetation_coverage, <<60, 1>>),
                      confidence |-> avg_confidence,
                      vegetation_coverage_percent |-> avg_vegetation_coverage,
                      co2_sequestration_potential_tonnes_year |->
                          CalculateCO2Potential(area_hectares,
                              avg_vegetation_coverage, analysis_results),
                      images_analyzed |-> n,
                      detailed_analysis |-> analysis_results,
                      image_urls |-> [i \in 1..n |-> i - 1]])

\* The entry batch_analyze records for an image whose analysis raised
ErrorEntry(e) == [error |-> e, vegetation_detected |-> FALSE, confidence |-> RZero]

\* batch_analyze with the try/except around the whole loop: the first image
\* that fails ends the batch
RECURSIVE BatchLoopAborting(_, _, _)
BatchLoopAborting(self, images, results) ==
    IF images = <<>> THEN results
    ELSE LET r == AnalyzeSingleImage(self, Head(images))
         IN  IF r.raised THEN Append(results, ErrorEntry(r.error))
             ELSE BatchLoopAborting(self, Tail(images), Append(results, r.value))

\* The for loop of batch_analyze, with its try/except around each image
RECURSIVE BatchLoop(_, _, _)
BatchLoop(self, images, results) ==
    IF images = <<>> THEN results
    ELSE LET r == AnalyzeSingleImage(self, Head(images))
         IN  BatchLoop(self, Tail(images),
                 Append(results, IF r.raised THEN ErrorEntry(r.error) ELSE r.value))

\* SatelliteAnalyzer.batch_analyze
BatchAnalyze(self, images) ==
    IF ~self.is_model_loaded THEN Raise("CNN model not loaded")
    ELSE Ok(BatchLoop(self, images, <<>>))

\* SatelliteAnalyzer._fetch_time_series_images: the dates (in days) of the
\* images, one every 30 days from start_date while not after end_date
RECURSIVE TimeSeriesDates(_, _)
TimeSeriesDates(current_date, end_date) ==
    IF current_date <= end_date
    THEN <<current_date>> \o TimeSeriesDates(current_date + 30, end_date)
    ELSE <<>>

\* np.polyfit(x_values, coverages, 1)[0]: the least-squares slope
PolyfitSlope(x_values, coverages) ==
    LET n == Len(x_values)
        xs == [i \in 1..n |-> <<x_values[i], 1>>]
        sx == RSum(xs)
        sy == RSum(coverages)
        sxy == RSum([i \in 1..n |-> RMul(xs[i], coverages[i])])
        sxx == RSum([i \in 1..n |-> RMul(xs[i], xs[i])])
        nn == <<n, 1>>
    IN  RDiv(RSub(RMul(nn, sxy), RMul(sx, sy)), RSub(RMul(nn, sxx), RMul(sx, sx)))

\* _calculate_vegetation_trend fitting a line as soon as there is one point
CalculateVegetationTrendFromOne(temporal_results) ==
    IF Len(temporal_results) < 1
    THEN [trend |-> "insufficient_data", change_rate |-> RZero]
    ELSE LET n == Len(temporal_results)
             coverages == [i \in 1..n |-> temporal_results[i].vegetation_coverage_percent]
             dates == [i \in 1..n |-> temporal_results[i].date]
             x_values == [i \in 1..n |-> dates[i] - dates[1]]
             trend_slope == PolyfitSlope(x_values, coverages)
         IN  [trend |-> IF RGt(trend_slope, ROne) THEN "increasing"
                        ELSE IF RLt(trend_slope, <<-1, 1>>) THEN "decreasing"
                        ELSE "stable",
              change_rate |-> trend_slope,
              initial_coverage |-> coverages[1],
              final_coverage |-> coverages[n],
              total_change |-> RSub(coverages[n], coverages[1])]

\* SatelliteAnalyzer._calculate_vegetation_trend
CalculateVegetationTrend(temporal_results) ==
    IF Len(temporal_results) < 2
    THEN [trend |-> "insufficient_data", change_rate |-> RZero]
    ELSE LET n == Len(temporal_results)
             coverages == [i \in 1..n |-> temporal_results[i].vegetation_coverage_percent]
             dates == [i \in 1..n |-> temporal_results[i].date]
             x_values == [i \in 1..n |-> dates[i] - dates[1]]
             trend_slope == PolyfitSlope(x_values, coverages)
         IN  [trend |-> IF RGt(trend_slope, ROne) THEN "increasing"
                        ELSE IF RLt(trend_slope, <<-1, 1>>) THEN "decreasing"
                        ELSE "stable",
              change_rate |-> trend_slope,
              initial_coverage |-> coverages[1],
              final_coverage |-> coverages[n],
              total_change |-> RSub(coverages[n], coverages[1])]

\* SatelliteAnalyzer.temporal_analysis; images holds the image fetched for
\* each date of the series, in date order
TemporalAnalysis(self, start_date, end_date, images) ==
    LET dates == TimeSeriesDates(start_date, end_date)
        a == AnalyzeEach(self, images, <<>>)
    IN  IF a.raised THEN a
        ELSE LET temporal_results ==
                     [i \in 1..Len(a.value) |->
                         [vegetation_coverage_percent |->
                              a.value[i].vegetation_coverage_percent,
                          confidence |-> a.value[i].confidence,
                          predicted_class |-> a.value[i].predicted_class,
                          date |-> dates[i]]]
             IN  Ok([temporal_analysis |-> temporal_results,
                     vegetation_trend |-> CalculateVegetationTrend(temporal_results),
                     period_start |-> start_date,
                     period_end |-> end_date,
                     images_analyzed |-> Len(temporal_results)])

(***************************************************************************)
(* CarbonPredictor: inference                                              *)
(***************************************************************************)
feature_columns ==
    <<"area_hectares", "vegetation_coverage", "temperature_avg",
      "precipitation_mm", "soil_quality_index", "elevation_m", "slope_degrees",
      "biodiversity_index", "human_activity_index", "project_age_months">>

\* CarbonPredictor._extract_project_features; environmental_data holds the
\* values _get_environmental_data returned
ExtractProjectFeatures(project_data, environmental_data) ==
    [area_hectares |-> <<project_data.area_hectares, 1>>,
     vegetation_coverage |-> <<75, 1>>,
     temperature_avg |-> environmental_data.temperature,
     precipitation_mm |-> environmental_data.precipitation,
     soil_quality_index |-> environmental_data.soil_quality,
     elevation_m |-> environmental_data.elevation,
     slope_degrees |-> environmental_data.slope,
     biodiversity_index |-> environmental_data.biodiversity,
     human_activity_index |-> environmental_data.human_activity,
     project_age_months |-> Rat(project_data.age_days * 100, 3044)]

\* CarbonPredictor._estimate_prediction_uncertainty: the spread of the
\* trees' predictions when the model has estimators_, else 10% of the
\* magnitude of the prediction
EstimatePredictionUncertainty(trees, prediction) ==
    IF trees.has_estimators THEN trees.std
    ELSE RMul(Rat(1, 10), IF RLt(prediction, RZero) THEN RSub(RZero, prediction)
                          ELSE prediction)

\* CarbonPredictor._calculate_feasibility
CalculateFeasibility(features, prediction) ==
    LET vegetation_coverage == RMin(RDiv(features.vegetation_coverage, <<80, 1>>), ROne)
        soil_quality == features.soil_quality_index
        precipitation == RMin(RDiv(features.precipitation_mm, <<1000, 1>>), ROne)
        area_size == RMin(RDiv(features.area_hectares, <<100, 1>>), ROne)
        prediction_reasonableness ==
            RMin(RDiv(prediction, RMul(features.area_hectares, <<5, 1>>)), ROne)
        weights == <<Pct(25), Pct(20), Pct(20), Pct(15), Pct(20)>>
        factors == <<vegetation_coverage, soil_quality, precipitation, area_size,
                     prediction_reasonableness>>
        feasibility ==
            RDiv(RSum([i \in 1..5 |-> RMul(factors[i], weights[i])]), RSum(weights))
    IN  RMin(feasibility, ROne)

\* _generate_recommendation with thresholds that include their bound
GenerateRecommendationNonStrict(prediction, feasibility) ==
    IF RGe(feasibility, Pct(80)) /\ RGe(prediction, <<100, 1>>) THEN "excellent"
    ELSE IF RGe(feasibility, Pct(60)) /\ RGe(prediction, <<50, 1>>) THEN "good"
    ELSE IF RGe(feasibility, Pct(40)) /\ RGe(prediction, <<20, 1>>) THEN "average"
    ELSE "poor"

\* CarbonPredictor._generate_recommendation
GenerateRecommendation(prediction, feasibility) ==
    IF RGt(feasibility, Pct(80)) /\ RGt(prediction, <<100, 1>>) THEN "excellent"
    ELSE IF RGt(feasibility, Pct(60)) /\ RGt(prediction, <<50, 1>>) THEN "good"
    ELSE IF RGt(feasibility, Pct(40)) /\ RGt(prediction, <<20, 1>>) THEN "average"
    ELSE "poor"

\* CarbonPredictor.estimate_co2_capture; env is what _get_environmental_data
\* gave (values or an exception), prediction what self.model.predict gave,
\* trees what the model's estimators_ gave
EstimateCO2Capture(self, project_data, env, prediction, trees) ==
    IF ~self.is_model_loaded THEN Raise("Carbon predictor model not loaded")
    ELSE IF env.raised THEN env
    ELSE LET features == ExtractProjectFeatures(project_data, env.value)
             prediction_std == EstimatePredictionUncertainty(trees, prediction)
             feasibility_score == CalculateFeasibility(features, prediction)
             spread == RMul(Rat(196, 100), prediction_std)
         IN  Ok([annual_co2_tonnes |-> RMax(prediction, RZero),
                 confidence_interval |->
                     [lower |-> RMax(RSub(prediction, spread), RZero),
                      upper |-> RAdd(prediction, spread)],
                 feasibility |-> feasibility_score,
                 recommendation |-> GenerateRecommendation(prediction, feasibility_score)])

\* A seasonal table that redistributes the year without scaling it
seasonal_factors_unit == [i \in 1..12 |-> ROne]

\* seasonal_factors of _calculate_monthly_breakdown, January first
seasonal_factors ==
    <<Rat(6, 10), Rat(7, 10), Rat(9, 10), Rat(12, 10), Rat(14, 10), Rat(13, 10),
      Rat(12, 10), Rat(11, 10), ROne, Rat(8, 10), Rat(6, 10), Rat(5, 10)>>

\* CarbonPredictor._calculate_monthly_breakdown
RECURSIVE MonthlyLoop(_, _, _, _)
MonthlyLoop(annual_co2, month, months, monthly_data) ==
    IF month >= months THEN monthly_data
    ELSE LET seasonal_factor == seasonal_factors[(month % 12) + 1]
             monthly_co2 == RMul(RDiv(annual_co2, <<12, 1>>), seasonal_factor)
             so_far == RSum([i \in 1..Len(monthly_data) |->
                                monthly_data[i].co2_capture_tonnes])
         IN  MonthlyLoop(annual_co2, month + 1, months,
                 Append(monthly_data,
                     [month |-> month + 1,
                      co2_capture_tonnes |-> monthly_co2,
                      seasonal_factor |-> seasonal_factor,
                      cumulative_co2 |-> RAdd(so_far, monthly_co2)]))

\* _calculate_monthly_breakdown without the cap of 12 months
CalculateMonthlyBreakdownUncapped(annual_co2, timeframe_days) ==
    MonthlyLoop(annual_co2, 0, timeframe_days \div 30, <<>>)

CalculateMonthlyBreakdown(annual_co2, timeframe_days) ==
    LET by_days == timeframe_days \div 30
        months == IF by_days < 12 THEN by_days ELSE 12
    IN  MonthlyLoop(annual_co2, 0, months, <<>>)

\* CarbonPredictor.predict_capture
PredictCapture(self, project_data, env, prediction, trees, timeframe_days) ==
    LET base_result == EstimateCO2Capture(self, project_data, env, prediction, trees)
    IN  IF base_result.raised THEN base_result
        ELSE Ok([project_id |-> project_data.project_id,
                 predicted_co2_capture |-> base_result.value.annual_co2_tonnes,
                 confidence_interval |->
                     [lower_bound |-> base_result.value.confidence_interval.lower,
                      upper_bound |-> base_result.value.confidence_interval.upper],
                 monthly_breakdown |->
                     CalculateMonthlyBreakdown(base_result.value.annual_co2_tonnes,
                                               timeframe_days),
                 recommendation |-> base_result.value.recommendation,
                 feasibility_score |-> base_result.value.feasibility])

(***************************************************************************)
(* verify_carbon_project: the fan-out and the verdict                      *)
(***************************************************************************)
\* The coroutines of the tasks list, in its order
SATELLITE == 1
FRAUD == 2
CARBON == 3
TaskIds == {SATELLITE, FRAUD, CARBON}

NoRequest == [project_id |-> "", area_hectares |-> 0, age_days |-> 0]
NoResponse == [raised |-> FALSE, error |-> "", value |-> <<>>, sent |-> FALSE]
NoTasks == [i \in TaskIds |-> [st |-> "none", result |-> Ok(<<>>)]]

\* dict[key] of Python: a KeyError when the key is missing
HasKeys(d, keys) == keys \subseteq DOMAIN d

\* The verdict with the thresholds included: >= in place of >
VerificationStatusNonStrict(satellite_result, fraud_result, carbon_result) ==
    /\ satellite_result.vegetation_detected
    /\ RGe(fraud_result.legitimacy_score, Pct(80))
    /\ RGe(carbon_result.feasibility, Pct(70))

\* verification_status of the VerificationResult(...) expression
VerificationStatus(satellite_result, fraud_result, carbon_result) ==
    /\ satellite_result.vegetation_detected
    /\ RGt(fraud_result.legitimacy_score, Pct(80))
    /\ RGt(carbon_result.feasibility, Pct(70))

\* The confidence with the feasibility left out of the minimum
ConfidenceScoreOfTwo(satellite_result, fraud_result, carbon_result) ==
    RMin(satellite_result.confidence, fraud_result.legitimacy_score)

\* confidence_score of the VerificationResult(...) expression
ConfidenceScore(satellite_result, fraud_result, carbon_result) ==
    RMin(RMin(satellite_result.confidence, fraud_result.legitimacy_score),
         carbon_result.feasibility)

\* The VerificationResult(...) expression reporting the legitimacy score
\* itself as the fraud risk
BuildVerificationResultRiskAsScore(project_data, satellite_result, fraud_result, carbon_result) ==
    IF ~ /\ HasKeys(satellite_result, {"vegetation_detected", "confidence"})
         /\ HasKeys(fraud_result, {"legitimacy_score"})
         /\ HasKeys(carbon_result, {"feasibility", "annual_co2_tonnes"})
    THEN Raise("KeyError")
    ELSE Ok([project_id |-> project_data.project_id,
             verification_status |->
                 VerificationStatus(satellite_result, fraud_result, carbon_result),
             confidence_score |->
                 ConfidenceScore(satellite_result, fraud_result, carbon_result),
             co2_capture_estimate |-> carbon_result.annual_co2_tonnes,
             fraud_risk_score |-> fraud_result.legitimacy_score,
             analysis_details |->
                 [satellite_analysis |-> satellite_result,
                  fraud_assessment |-> fraud_result,
                  carbon_estimation |-> carbon_result],
             satellite_images |->
                 IF "image_urls" \in DOMAIN satellite_result
                 THEN satellite_result.image_urls ELSE <<>>])

\* The VerificationResult(...) expression of verify_carbon_project
BuildVerificationResult(project_data, satellite_result, fraud_result, carbon_result) ==
    IF ~ /\ HasKeys(satellite_result, {"vegetation_detected", "confidence"})
         /\ HasKeys(fraud_result, {"legitimacy_score"})
         /\ HasKeys(carbon_result, {"feasibility", "annual_co2_tonnes"})
    THEN Raise("KeyError")
    ELSE Ok([project_id |-> project_data.project_id,
             verification_status |->
                 VerificationStatus(satellite_result, fraud_result, carbon_result),
             confidence_score |->
                 ConfidenceScore(satellite_result, fraud_result, carbon_result),
             co2_capture_estimate |-> carbon_result.annual_co2_tonnes,
             fraud_risk_score |-> RSub(ROne, fraud_result.legitimacy_score),
             analysis_details |->
                 [satellite_analysis |-> satellite_result,
                  fraud_assessment |-> fraud_result,
                  carbon_estimation |-> carbon_result],
             satellite_images |->
                 IF "image_urls" \in DOMAIN satellite_result
                 THEN satellite_result.image_urls ELSE <<>>])

\* The first of the finished coroutines, in completion order, that raised
RECURSIVE FirstRaised(_, _)
FirstRaised(t, completed) ==
    IF completed = <<>> THEN 0
    ELSE IF t[Head(completed)].st = "raised" THEN Head(completed)
    ELSE FirstRaised(t, Tail(completed))

\* gather with the result of a failed coroutine replaced by an empty
\* result of its kind
DefaultResult(i) ==
    CASE i = SATELLITE -> [vegetation_detected |-> FALSE, confidence |-> RZero]
      [] i = FRAUD -> [legitimacy_score |-> RZero]
      [] i = CARBON -> [feasibility |-> RZero, annual_co2_tonnes |-> RZero]

GatherTolerant(t, completed) ==
    IF \A i \in TaskIds : t[i].st \in {"done", "raised"}
    THEN [pending |-> FALSE, raised |-> FALSE, error |-> "",
          value |-> [i \in TaskIds |->
                        IF t[i].st = "done" THEN t[i].result.value
                        ELSE DefaultResult(i)]]
    ELSE [pending |-> TRUE, raised |-> FALSE, error |-> "", value |-> <<>>]

\* gather handing the results over in the order the coroutines finished
GatherAsCompleted(t, completed) ==
    IF FirstRaised(t, completed) # 0
    THEN [pending |-> FALSE, raised |-> TRUE,
          error |-> t[FirstRaised(t, completed)].result.error, value |-> <<>>]
    ELSE IF \A i \in TaskIds : t[i].st = "done"
    THEN [pending |-> FALSE, raised |-> FALSE, error |-> "",
          value |-> [i \in TaskIds |-> t[completed[i]].result.value]]
    ELSE [pending |-> TRUE, raised |-> FALSE, error |-> "", value |-> <<>>]

\* await asyncio.gather(*tasks): pending until all three coroutines have
\* returned, and then their results in the order of the tasks list; the
\* first exception raised by a coroutine is raised to the awaiter at once
Gather(t, completed) ==
    IF FirstRaised(t, completed) # 0
    THEN [pending |-> FALSE, raised |-> TRUE,
          error |-> t[FirstRaised(t, completed)].result.error, value |-> <<>>]
    ELSE IF \A i \in TaskIds : t[i].st = "done"
    THEN [pending |-> FALSE, raised |-> FALSE, error |-> "",
          value |-> [i \in TaskIds |-> t[i].result.value]]
    ELSE [pending |-> TRUE, raised |-> FALSE, error |-> "", value |-> <<>>]

\* background_tasks.add_task(save_verification_result, verification_result)
SchedulePersistenceNever(tasks, verification_result) == tasks

SchedulePersistence(tasks, verification_result) ==
    Append(tasks, [func |-> "save_verification_result", arg |-> verification_result])

\* The awaiter of gather is cancelled and the coroutines are left running
CancelGatherDetached(t) == t

\* The awaiter of asyncio.gather(*tasks) is cancelled while gather is
\* pending: gather cancels every coroutine that has not completed
CancelGather(t) ==
    [i \in TaskIds |->
        IF t[i].st = "running" THEN [st |-> "cancelled", result |-> Ok(<<>>)]
        ELSE t[i]]

(***************************************************************************)
(* Engine lifecycle: construction and repeated load_model                  *)
(***************************************************************************)
\* No object yet: before CarbonPredictor() / SatelliteAnalyzer() is evaluated
NoCarbonPredictor == [CarbonPredictorNew EXCEPT !.phase = "none"]
NoSatelliteAnalyzer == [SatelliteAnalyzerNew EXCEPT !.phase = "none"]

CpReady == cp.phase = "live" /\ CarbonIsLoaded(cp)
SaReady == sa.phase = "live" /\ SatelliteIsLoaded(sa)

NoCall ==
    [op |-> "none", engine |-> "none", ready |-> FALSE, branch |-> "none",
     write |-> "none", train |-> "none", raised |-> FALSE, error |-> "",
     arg |-> <<>>, value |-> <<>>]

\* What a load_model call did, as seen by its caller
LoadCall(engine, via, ready, r, train, write) ==
    [NoCall EXCEPT !.op = via, !.engine = engine, !.ready = ready,
                   !.branch = r.branch, !.raised = r.raised,
                   !.train = train, !.write = write]

WriteOf(r, train, dump) ==
    IF r.branch # "create" \/ train # "ok" THEN "none"
    ELSE IF dump = "ok" THEN "ok" ELSE "failed"

\* carbon_predictor = CarbonPredictor(): __init__ with its load_model call.
\* An exception leaving load_model leaves __init__ too: no object is bound.
CpConstruct(train, dump) ==
    /\ cp.phase = "none"
    /\ LET r == CarbonLoadModel(CarbonPredictorNew, fs, train, dump)
       IN  /\ cp' = [r.self EXCEPT !.phase = IF r.raised THEN "init_raised" ELSE "live"]
           /\ fs' = r.fs
           /\ last' = LoadCall("cp", "__init__", FALSE, r, train, WriteOf(r, train, dump))
    /\ loads' = [loads EXCEPT !.cp = 1]
    /\ UNCHANGED <<sa, verifyVars>>

\* carbon_predictor.load_model() on the constructed object
CpLoadModel(train, dump) ==
    /\ cp.phase = "live"
    /\ loads.cp < MaxLoads
    /\ LET r == CarbonLoadModel(cp, fs, train, dump)
       IN  /\ cp' = r.self
           /\ fs' = r.fs
           /\ last' = LoadCall("cp", "load_model", CpReady, r, train, WriteOf(r, train, dump))
    /\ loads' = [loads EXCEPT !.cp = @ + 1]
    /\ UNCHANGED <<sa, verifyVars>>

\* satellite_analyzer = SatelliteAnalyzer()
SaConstruct(create) ==
    /\ sa.phase = "none"
    /\ LET r == SatelliteLoadModel(SatelliteAnalyzerNew, fs, create)
       IN  /\ sa' = [r.self EXCEPT !.phase = "live"]
           /\ fs' = r.fs
           /\ last' = LoadCall("sa", "__init__", FALSE, r, create, "none")
    /\ loads' = [loads EXCEPT !.sa = 1]
    /\ UNCHANGED <<cp, verifyVars>>

\* satellite_analyzer.load_model() on the constructed object
SaLoadModel(create) ==
    /\ sa.phase = "live"
    /\ loads.sa < MaxLoads
    /\ LET r == SatelliteLoadModel(sa, fs, create)
       IN  /\ sa' = r.self
           /\ fs' = r.fs
           /\ last' = LoadCall("sa", "load_model", SaReady, r, create, "none")
    /\ loads' = [loads EXCEPT !.sa = @ + 1]
    /\ UNCHANGED <<cp, verifyVars>>

\* CarbonPredictor.is_loaded, as called by /health
CpIsLoaded ==
    /\ cp.phase = "live"
    /\ last' = [NoCall EXCEPT !.op = "is_loaded", !.engine = "cp",
                              !.ready = CpReady, !.value = CarbonIsLoaded(cp)]
    /\ UNCHANGED <<fs, cp, sa, loads, verifyVars>>

\* CarbonPredictor.get_model_metrics
CpGetModelMetrics ==
    /\ cp.phase = "live"
    /\ last' = [NoCall EXCEPT !.op = "get_model_metrics", !.engine = "cp",
                              !.ready = CpReady,
                              !.value = IF cp.is_model_loaded THEN "loaded"
                                        ELSE "not_loaded"]
    /\ UNCHANGED <<fs, cp, sa, loads, verifyVars>>

\* SatelliteAnalyzer.is_loaded, as called by /health
SaIsLoaded ==
    /\ sa.phase = "live"
    /\ last' = [NoCall EXCEPT !.op = "is_loaded", !.engine = "sa",
                              !.ready = SaReady, !.value = SatelliteIsLoaded(sa)]
    /\ UNCHANGED <<fs, cp, sa, loads, verifyVars>>

IdleVerify ==
    /\ request = NoRequest
    /\ pc = "idle"
    /\ task = NoTasks
    /\ order = <<>>
    /\ response = NoResponse
    /\ background_tasks = <<>>
    /\ db = <<>>
    /\ log = <<>>

InitLife ==
    /\ fs \in [model : FileStates, scaler : FileStates, cnn : FileStates]
    /\ cp = NoCarbonPredictor
    /\ sa = NoSatelliteAnalyzer
    /\ loads = [cp |-> 0, sa |-> 0]
    /\ last = NoCall
    /\ IdleVerify

NextLife ==
    \/ \E train \in TrainOutcomes, dump \in DumpOutcomes : CpConstruct(train, dump)
    \/ \E train \in TrainOutcomes, dump \in DumpOutcomes : CpLoadModel(train, dump)
    \/ \E create \in CreateOutcomes : SaConstruct(create)
    \/ \E create \in CreateOutcomes : SaLoadModel(create)
    \/ CpIsLoaded
    \/ CpGetModelMetrics
    \/ SaIsLoaded

SpecLife == InitLife /\ [][NextLife]_vars

(***************************************************************************)
(* Inference calls on constructed engines (SpecInfer)                      *)
(***************************************************************************)
\* The predictors and analyzers that construction can produce
LiveCarbonPredictors ==
    {[CarbonLoadModel(CarbonPredictorNew, f, t, d).self EXCEPT !.phase = "live"] :
        <<f, t, d>> \in {x \in [model : FileStates, scaler : FileStates,
                                cnn : {"absent"}] \X TrainOutcomes \X DumpOutcomes :
                            ~CarbonLoadModel(CarbonPredictorNew, x[1], x[2], x[3]).raised}}

LiveSatelliteAnalyzers ==
    {[SatelliteLoadModel(SatelliteAnalyzerNew, f, c).self EXCEPT !.phase = "live"] :
        <<f, c>> \in [model : {"absent"}, scaler : {"absent"}, cnn : FileStates]
                        \X CreateOutcomes}

\* ProjectData of main.py, with the project's age in days at the request
Projects ==
    [project_id : {"p1"}, area_hectares : {50, 100}, age_days : {365}]

\* What the environmental-data provider can give for a location
EnvironmentalData ==
    [temperature : {<<20, 1>>}, precipitation : {<<500, 1>>, <<1000, 1>>},
     soil_quality : {Rat(37, 64), Rat(9, 10)}, elevation : {<<500, 1>>},
     slope : {<<10, 1>>}, biodiversity : {Rat(6, 10)},
     human_activity : {Rat(3, 10)}]

EnvOutcomes ==
    {Ok(e) : e \in EnvironmentalData} \cup {Raise("environmental data unavailable")}

\* What self.model.predict and the trees of the ensemble can give
Predictions == {<<-10, 1>>, RZero, <<60, 1>>, <<600, 1>>}
Trees ==
    {[has_estimators |-> TRUE, std |-> RZero],
     [has_estimators |-> TRUE, std |-> <<5, 1>>],
     [has_estimators |-> FALSE, std |-> RZero]}

Timeframes == {0, 29, 90, 365}

\* What the image provider can give for an area
FetchOutcomes ==
    {Ok(s) : s \in SeqsOf(Images, 0, MaxImages)}
        \cup {Raise("satellite images unavailable")}

StartDates == {0, 30}
EndDates == {15} \cup {30 * k : k \in 0..MaxSeries}

Call(engine, op, ready, arg, r) ==
    [NoCall EXCEPT !.op = op, !.engine = engine, !.ready = ready, !.arg = arg,
                   !.raised = r.raised, !.error = r.error, !.value = r.value]

EstimateCO2CaptureCall(project_data, env, prediction, trees) ==
    /\ cp.phase = "live"
    /\ last.op = "none"
    /\ last' = Call("cp", "estimate_co2_capture", CpReady, project_data,
                    EstimateCO2Capture(cp, project_data, env, prediction, trees))
    /\ UNCHANGED <<fs, cp, sa, loads, verifyVars>>

PredictCaptureCall(project_data, env, prediction, trees, timeframe_days) ==
    /\ cp.phase = "live"
    /\ last.op = "none"
    /\ last' = Call("cp", "predict_capture", CpReady, timeframe_days,
                    PredictCapture(cp, project_data, env, prediction, trees,
                                   timeframe_days))
    /\ UNCHANGED <<fs, cp, sa, loads, verifyVars>>

\* analyze_single_image marking the classifier as not loaded when the
\* analysis of an image raises
AnalyzeSingleImageCallUnloading(image) ==
    /\ sa.phase = "live"
    /\ last.op = "none"
    /\ last' = Call("sa", "analyze_single_image", SaReady, image,
                    AnalyzeSingleImage(sa, image))
    /\ sa' = IF AnalyzeSingleImage(sa, image).raised
             THEN [sa EXCEPT !.is_model_loaded = FALSE] ELSE sa
    /\ UNCHANGED <<fs, cp, loads, verifyVars>>

AnalyzeSingleImageCall(image) ==
    /\ sa.phase = "live"
    /\ last.op = "none"
    /\ last' = Call("sa", "analyze_single_image", SaReady, image,
                    AnalyzeSingleImage(sa, image))
    /\ UNCHANGED <<fs, cp, sa, loads, verifyVars>>

AnalyzeProjectAreaCall(fetch, area_hectares) ==
    /\ sa.phase = "live"
    /\ last.op = "none"
    /\ last' = Call("sa", "analyze_project_area", SaReady, fetch,
                    AnalyzeProjectArea(sa, fetch, area_hectares))
    /\ UNCHANGED <<fs, cp, sa, loads, verifyVars>>

BatchAnalyzeCall(images) ==
    /\ sa.phase = "live"
    /\ last.op = "none"
    /\ last' = Call("sa", "batch_analyze", SaReady, images, BatchAnalyze(sa, images))
    /\ UNCHANGED <<fs, cp, sa, loads, verifyVars>>

TemporalAnalysisCall(start_date, end_date, images) ==
    /\ sa.phase = "live"
    /\ last.op = "none"
    /\ Len(images) = Len(TimeSeriesDates(start_date, end_date))
    /\ last' = Call("sa", "temporal_analysis", SaReady,
                    [start_date |-> start_date, end_date |-> end_date,
                     images |-> images],
                    TemporalAnalysis(sa, start_date, end_date, images))
    /\ UNCHANGED <<fs, cp, sa, loads, verifyVars>>

\* The caller takes the outcome of its call; the next call can be made
TakeOutcome ==
    /\ last.op # "none"
    /\ last' = NoCall
    /\ UNCHANGED <<fs, cp, sa, loads, verifyVars>>

InitInfer ==
    /\ fs = [model |-> "absent", scaler |-> "absent", cnn |-> "absent"]
    /\ cp \in LiveCarbonPredictors
    /\ sa \in LiveSatelliteAnalyzers
    /\ loads = [cp |-> 1, sa |-> 1]
    /\ last = NoCall
    /\ IdleVerify

NextInfer ==
    \/ \E p \in Projects, e \in EnvOutcomes, y \in Predictions, t \in Trees :
            EstimateCO2CaptureCall(p, e, y, t)
    \/ \E p \in Projects, e \in EnvOutcomes, y \in Predictions, t \in Trees,
          d \in Timeframes :
            PredictCaptureCall(p, e, y, t, d)
    \/ \E i \in Images : AnalyzeSingleImageCall(i)
    \/ \E f \in FetchOutcomes, p \in Projects :
            AnalyzeProjectAreaCall(f, p.area_hectares)
    \/ \E s \in SeqsOf(Images, 0, MaxBatch) : BatchAnalyzeCall(s)
    \/ \E a \in StartDates, b \in EndDates, s \in SeqsOf(Images, 0, MaxSeries + 1) :
            TemporalAnalysisCall(a, b, s)
    \/ TakeOutcome

SpecInfer == InitInfer /\ [][NextInfer]_vars

(***************************************************************************)
(* The verification service (Spec)                                         *)
(***************************************************************************)
\* What fraud_detector.assess_project_legitimacy can give
FraudOutcomes ==
    {Ok([legitimacy_score |-> Pct(80)]), Ok([legitimacy_score |-> Pct(90)]),
     Raise("legitimacy assessment failed")}

\* What get_database() and db.save_verification_result can do
DbOutcomes == {"saved", "database_unavailable", "save_raises"}

\* What the model and its trees give during a verification
VerifyPredictions == {RZero, <<600, 1>>}
VerifyTrees == {[has_estimators |-> TRUE, std |-> <<5, 1>>]}

\* POST /verify-carbon-project arrives: the three coroutines are created
\* and handed to asyncio.gather
VerifyStart(project_data) ==
    /\ pc = "idle"
    /\ request' = project_data
    /\ pc' = "gather"
    /\ task' = [i \in TaskIds |-> [st |-> "running", result |-> Ok(<<>>)]]
    /\ UNCHANGED <<engineVars, order, response, background_tasks, db, log>>

Finish(i, r) ==
    /\ task[i].st = "running"
    /\ task' = [task EXCEPT ![i] = [st |-> IF r.raised THEN "raised" ELSE "done",
                                    result |-> r]]
    /\ order' = Append(order, i)
    /\ UNCHANGED <<engineVars, request, pc, response, background_tasks, db, log>>

\* satellite_analyzer.analyze_project_area(...) runs to its end
SatelliteFinish(fetch) ==
    Finish(SATELLITE, AnalyzeProjectArea(sa, fetch, request.area_hectares))

\* fraud_detector.assess_project_legitimacy(...) runs to its end
FraudFinish(r) == Finish(FRAUD, r)

\* carbon_predictor.estimate_co2_capture(...) runs to its end
CarbonFinish(env, prediction, trees) ==
    Finish(CARBON, EstimateCO2Capture(cp, request, env, prediction, trees))

\* The await of gather returns: the verdict is built, its persistence is
\* scheduled and the result is returned
VerifyReturn ==
    /\ pc = "gather"
    /\ LET g == Gather(task, order) IN
       /\ ~g.pending
       /\ ~g.raised
       /\ LET v == BuildVerificationResult(request, g.value[SATELLITE],
                                           g.value[FRAUD], g.value[CARBON])
          IN  IF v.raised
              THEN /\ pc' = "failed"
                   /\ response' = [raised |-> TRUE, value |-> <<>>, sent |-> TRUE,
                                   error |-> "Verification failed"]
                   /\ log' = Append(log, "Verification failed")
                   /\ UNCHANGED background_tasks
              ELSE /\ pc' = "returned"
                   /\ response' = [raised |-> FALSE, value |-> v.value, sent |-> TRUE,
                                   error |-> ""]
                   /\ background_tasks' = SchedulePersistence(background_tasks, v.value)
                   /\ UNCHANGED log
    /\ UNCHANGED <<engineVars, request, task, order, db>>

\* The await of gather raises and the handler cancels the coroutines that
\* are still running
VerifyFailCancelling ==
    /\ pc = "gather"
    /\ LET g == Gather(task, order) IN
       /\ ~g.pending
       /\ g.raised
       /\ response' = [raised |-> TRUE, value |-> <<>>, sent |-> TRUE,
                       error |-> g.error]
    /\ pc' = "failed"
    /\ task' = CancelGather(task)
    /\ log' = Append(log, "Verification failed")
    /\ UNCHANGED <<engineVars, request, order, background_tasks, db>>

\* The await of gather raises: except Exception logs and raises
\* HTTPException(500) whose detail carries the text of the exception; the
\* coroutines still running are left alone
VerifyFail ==
    /\ pc = "gather"
    /\ LET g == Gather(task, order) IN
       /\ ~g.pending
       /\ g.raised
       /\ response' = [raised |-> TRUE, value |-> <<>>, sent |-> TRUE,
                       error |-> g.error]
    /\ pc' = "failed"
    /\ log' = Append(log, "Verification failed")
    /\ UNCHANGED <<engineVars, request, task, order, background_tasks, db>>

\* The request is cancelled at the await of gather: CancelledError is
\* raised at line 110, is not an Exception for the handler of line 145,
\* and leaves verify_carbon_project
VerifyCancel ==
    /\ pc = "gather"
    /\ Gather(task, order).pending
    /\ pc' = "cancelled"
    /\ task' = CancelGather(task)
    /\ UNCHANGED <<engineVars, request, order, response, background_tasks, db, log>>

\* save_verification_result, run by BackgroundTasks once the response is out
SaveVerificationResult(outcome) ==
    /\ response.sent
    /\ background_tasks # <<>>
    /\ background_tasks' = Tail(background_tasks)
    /\ IF outcome = "saved"
       THEN db' = Append(db, Head(background_tasks).arg) /\ UNCHANGED log
       ELSE log' = Append(log, "Failed to save verification result") /\ UNCHANGED db
    /\ UNCHANGED <<engineVars, request, pc, task, order, response>>

\* The engines as main.py constructs them at import, from artifacts that
\* are all present or all unreadable
StartupFiles == {"good", "corrupt"}

Init ==
    /\ fs = [model |-> "absent", scaler |-> "absent", cnn |-> "absent"]
    /\ \E f \in StartupFiles :
         cp = [CarbonLoadModel(CarbonPredictorNew,
                   [model |-> f, scaler |-> f, cnn |-> f], "ok", "ok").self
               EXCEPT !.phase = "live"]
    /\ \E f \in StartupFiles :
         sa = [SatelliteLoadModel(SatelliteAnalyzerNew,
                   [model |-> f, scaler |-> f, cnn |-> f], "ok").self
               EXCEPT !.phase = "live"]
    /\ loads = [cp |-> 1, sa |-> 1]
    /\ last = NoCall
    /\ IdleVerify

Next ==
    \/ \E p \in Projects : VerifyStart(p)
    \/ \E f \in FetchOutcomes : SatelliteFinish(f)
    \/ \E r \in FraudOutcomes : FraudFinish(r)
    \/ \E e \in EnvOutcomes, y \in VerifyPredictions, t \in VerifyTrees :
            CarbonFinish(e, y, t)
    \/ VerifyReturn
    \/ VerifyFail
    \/ VerifyCancel
    \/ \E o \in DbOutcomes : SaveVerificationResult(o)

Spec == Init /\ [][Next]_vars

(***************************************************************************)
(* The engines' computations on given values (SpecPure)                    *)
(***************************************************************************)
\* Feature vectors handed to _calculate_feasibility, the nominal values of
\* _get_environmental_data and values outside them
FeasibilityFeatures ==
    [vegetation_coverage : {RZero, <<75, 1>>, <<160, 1>>},
     soil_quality_index : {Rat(-1, 2), RZero, Rat(7, 10), Rat(3, 2)},
     precipitation_mm : {<<-500, 1>>, <<800, 1>>, <<2000, 1>>},
     area_hectares : {<<-50, 1>>, ROne, <<50, 1>>, <<1000, 1>>}]

\* Values self.model.predict can give
RawPredictions == {<<-600, 1>>, <<-10, 1>>, RZero, <<60, 1>>, <<100000, 1>>}

CalculateFeasibilityCall(features, prediction) ==
    /\ last.op = "none"
    /\ last' = Call("cp", "_calculate_feasibility", CpReady,
                    [features |-> features, prediction |-> prediction],
                    Ok(CalculateFeasibility(features, prediction)))
    /\ UNCHANGED <<fs, cp, sa, loads, verifyVars>>

\* Annual estimates and horizons handed to _calculate_monthly_breakdown
AnnualEstimates == {<<-12, 1>>, RZero, Rat(1, 2), <<120, 1>>, <<600, 1>>}
BreakdownTimeframes == {-30, 0, 29, 30, 90, 359, 360, 365, 730}

CalculateMonthlyBreakdownCall(annual_co2, timeframe_days) ==
    /\ last.op = "none"
    /\ last' = Call("cp", "_calculate_monthly_breakdown", CpReady,
                    [annual_co2 |-> annual_co2, timeframe_days |-> timeframe_days],
                    Ok(CalculateMonthlyBreakdown(annual_co2, timeframe_days)))
    /\ UNCHANGED <<fs, cp, sa, loads, verifyVars>>

\* Coverage series handed to _calculate_vegetation_trend, sampled every
\* spacing days from day 0
CoverageSeries ==
    {<<40, 45, 50, 55>>, <<50, 50, 50>>, <<55, 50, 45, 40>>, <<10, 90>>,
     <<90, 10>>, <<40, 42, 41>>, <<70>>, <<>>}
DaySpacings == {1, 4, 5, 30}

TemporalResults(coverages, spacing) ==
    [i \in 1..Len(coverages) |->
        [vegetation_coverage_percent |-> <<coverages[i], 1>>,
         date |-> (i - 1) * spacing]]

CalculateVegetationTrendCall(coverages, spacing) ==
    /\ last.op = "none"
    /\ last' = Call("sa", "_calculate_vegetation_trend", SaReady,
                    [coverages |-> coverages, spacing |-> spacing],
                    Ok(CalculateVegetationTrend(TemporalResults(coverages, spacing))))
    /\ UNCHANGED <<fs, cp, sa, loads, verifyVars>>

\* Class probabilities (percent, in the order of vegetation_classes) of the
\* analysed images handed to _calculate_co2_potential
ProbForest == <<0, 0, 0, 0, 100, 0, 0>>
ProbForestHalfCleared == <<0, 0, 0, 0, 50, 50, 0>>
ProbCleared == <<0, 0, 0, 0, 0, 100, 0>>
ProbSpread == <<10, 20, 30, 10, 10, 10, 10>>
ProbNone == <<0, 0, 0, 0, 0, 0, 0>>
ClassProbabilities ==
    {ProbForest, ProbForestHalfCleared, ProbCleared, ProbSpread, ProbNone}

MaxResults == 2    \* analysed images handed to _calculate_co2_potential

AnalysisResults ==
    {[i \in 1..Len(q) |-> [class_probabilities |-> q[i]]] :
        q \in SeqsOf(ClassProbabilities, 1, MaxResults)}

PotentialAreas == {10, 50}
PotentialCoverages == {RZero, <<50, 1>>, <<100, 1>>}

CalculateCO2PotentialCall(area_hectares, vegetation_coverage, analysis_results) ==
    /\ last.op = "none"
    /\ last' = Call("sa", "_calculate_co2_potential", SaReady,
                    [area_hectares |-> area_hectares,
                     vegetation_coverage |-> vegetation_coverage,
                     analysis_results |-> analysis_results],
                    Ok(CalculateCO2Potential(area_hectares, vegetation_coverage,
                                             analysis_results)))
    /\ UNCHANGED <<fs, cp, sa, loads, verifyVars>>

\* Image tensors handed to _calculate_vegetation_coverage
PixelLeaf == <<50, 200, 30, 255>>
PixelSoil == <<200, 100, 50, 255>>
PixelEdge == <<2, 3, 200, 255>>
Pixels == {PixelLeaf, PixelSoil, PixelEdge}

MaxPixels == 2    \* pixels of an image tensor

Tensors ==
    {Tensor(3, c, [i \in 1..Len(q) |-> SubSeq(q[i], 1, c)]) :
        c \in {1, 3, 4}, q \in SeqsOf(Pixels, 0, MaxPixels)}
    \cup {Tensor(2, 0, [i \in 1..Len(q) |-> SubSeq(q[i], 1, 1)]) :
            q \in SeqsOf(Pixels, 0, MaxPixels)}

CalculateVegetationCoverageCall(image_data) ==
    /\ last.op = "none"
    /\ last' = Call("sa", "_calculate_vegetation_coverage", SaReady, image_data,
                    Ok(CalculateVegetationCoverage(image_data)))
    /\ UNCHANGED <<fs, cp, sa, loads, verifyVars>>

\* Pairs handed to _generate_recommendation: values on, below and above
\* each threshold
RecommendationPredictions ==
    {<<-10, 1>>, <<20, 1>>, <<21, 1>>, <<50, 1>>, <<51, 1>>, <<100, 1>>, <<101, 1>>}
RecommendationFeasibilities ==
    {Pct(-10), Pct(40), Pct(41), Pct(60), Pct(61), Pct(80), Pct(81), Pct(100)}

GenerateRecommendationCall(prediction, feasibility) ==
    /\ last.op = "none"
    /\ last' = Call("cp", "_generate_recommendation", CpReady,
                    [prediction |-> prediction, feasibility |-> feasibility],
                    Ok(GenerateRecommendation(prediction, feasibility)))
    /\ UNCHANGED <<fs, cp, sa, loads, verifyVars>>

InitPure ==
    /\ fs = [model |-> "absent", scaler |-> "absent", cnn |-> "absent"]
    /\ cp \in {c \in LiveCarbonPredictors : CarbonIsLoaded(c)}
    /\ sa \in {a \in LiveSatelliteAnalyzers : SatelliteIsLoaded(a)}
    /\ loads = [cp |-> 1, sa |-> 1]
    /\ last = NoCall
    /\ IdleVerify

NextPure ==
    \/ \E f \in FeasibilityFeatures, y \in RawPredictions :
            CalculateFeasibilityCall(f, y)
    \/ \E y \in AnnualEstimates, d \in BreakdownTimeframes :
            CalculateMonthlyBreakdownCall(y, d)
    \/ \E c \in CoverageSeries, d \in DaySpacings :
            CalculateVegetationTrendCall(c, d)
    \/ \E a \in PotentialAreas, c \in PotentialCoverages, r \in AnalysisResults :
            CalculateCO2PotentialCall(a, c, r)
    \/ \E t \in Tensors : CalculateVegetationCoverageCall(t)
    \/ \E y \in RecommendationPredictions, f \in RecommendationFeasibilities :
            GenerateRecommendationCall(y, f)
    \/ TakeOutcome

SpecPure == InitPure /\ [][NextPure]_vars

(***************************************************************************)
(* Claims on the verification service (Spec)                               *)
(***************************************************************************)
AllDone == \A i \in TaskIds : task[i].st = "done"
SomeRaised == \E i \in TaskIds : task[i].st = "raised"
SatelliteResult == task[SATELLITE].result.value
FraudResult == task[FRAUD].result.value
CarbonResult == task[CARBON].result.value

\* a > p/100 and a = p/100 for a rational a and a percentage p
Above(a, p) == a[1] * 100 > p * a[2]
Exactly(a, p) == a[1] * 100 = p * a[2]
AtMost(a, b) == a[1] * b[2] <= b[1] * a[2]

\* C1: verification_status of the result built is true exactly when the
\* area-level vegetation_detected is true, legitimacy_score > 0.8 and
\* feasibility > 0.7, both comparisons strict.
C1_VerificationStatus ==
    pc = "returned" =>
        /\ AllDone
        /\ response.value.verification_status
            = ( /\ SatelliteResult.vegetation_detected
                /\ Above(FraudResult.legitimacy_score, 80)
                /\ Above(CarbonResult.feasibility, 70) )

\* Vegetation detected, legitimacy above 0.8 and feasibility exactly 0.7:
\* the verdict is false
C1_Witness ==
    /\ pc = "returned"
    /\ SatelliteResult.vegetation_detected
    /\ Above(FraudResult.legitimacy_score, 80)
    /\ Exactly(CarbonResult.feasibility, 70)
    /\ ~response.value.verification_status

\* C2: confidence_score of the result built is the minimum of the
\* area-level vegetation confidence, the legitimacy_score and the
\* feasibility, whatever the verdict.
C2_ConfidenceIsMinimum ==
    pc = "returned" =>
        /\ AllDone
        /\ LET c == response.value.confidence_score
               three == {SatelliteResult.confidence, FraudResult.legitimacy_score,
                         CarbonResult.feasibility}
           IN  /\ c \in three
               /\ \A x \in three : AtMost(c, x)

\* A negative verdict whose confidence is the feasibility, below the two
\* other scores
C2_Witness ==
    /\ pc = "returned"
    /\ ~response.value.verification_status
    /\ response.value.confidence_score = CarbonResult.feasibility
    /\ ~AtMost(SatelliteResult.confidence, CarbonResult.feasibility)
    /\ ~AtMost(FraudResult.legitimacy_score, CarbonResult.feasibility)

\* C3: when one of the three analyses has raised, the caller gets no
\* VerificationResult (once answered, the answer is the failure), and no
\* persistence is scheduled or performed.
C3_FailsAtomically ==
    SomeRaised =>
        /\ pc \in {"gather", "failed"}
        /\ pc = "failed" => response.sent /\ response.raised
        /\ response.value = <<>>
        /\ background_tasks = <<>>
        /\ db = <<>>

\* Two analyses succeeded, the third raised, and the request failed
C3_Witness ==
    /\ pc = "failed"
    /\ task[SATELLITE].st = "done"
    /\ task[FRAUD].st = "done"
    /\ task[CARBON].st = "raised"
    /\ response.raised

\* C4: a VerificationResult exists only when all three analyses have
\* completed successfully, each of its fields comes from the result of the
\* analysis it belongs to, whatever the order in which they finished, and
\* the request fails only when an analysis raised.
C4_JoinNotRace ==
    /\ pc = "returned" =>
        /\ AllDone
        /\ LET v == response.value IN
           /\ v.analysis_details.satellite_analysis = SatelliteResult
           /\ v.analysis_details.fraud_assessment = FraudResult
           /\ v.analysis_details.carbon_estimation = CarbonResult
           /\ v.co2_capture_estimate = CarbonResult.annual_co2_tonnes
           /\ v.satellite_images = SatelliteResult.image_urls
           /\ v.verification_status => SatelliteResult.vegetation_detected
           /\ AtMost(v.confidence_score, SatelliteResult.confidence)
           /\ AtMost(v.confidence_score, FraudResult.legitimacy_score)
           /\ AtMost(v.confidence_score, CarbonResult.feasibility)
    /\ pc = "failed" => SomeRaised

\* A result built from analyses that finished in the reverse of the order
\* of the tasks list
C4_Witness ==
    /\ pc = "returned"
    /\ order = <<CARBON, FRAUD, SATELLITE>>

SaveFailures == Cardinality({i \in 1..Len(log) :
                                log[i] = "Failed to save verification result"})

\* C10: a successful verification schedules exactly one
\* save_verification_result task, for the result it returns; the response
\* is out before the task runs, and whatever the task does (saves, finds
\* the database unavailable, raises) the response stays the same result.
C10_PersistenceIsFireAndForget ==
    /\ [](pc = "returned" =>
            /\ response.sent /\ ~response.raised
            /\ Len(background_tasks) + Len(db) + SaveFailures = 1
            /\ \A i \in 1..Len(background_tasks) :
                    background_tasks[i] = [func |-> "save_verification_result",
                                           arg |-> response.value]
            /\ \A i \in 1..Len(db) : db[i] = response.value)
    /\ [][response.sent => (response' = response /\ pc' = pc)]_vars

\* The save failed after the result was returned: it is logged, the
\* response is the result
C10_Witness ==
    /\ pc = "returned"
    /\ response.sent /\ ~response.raised
    /\ response.value.project_id = request.project_id
    /\ background_tasks = <<>>
    /\ db = <<>>
    /\ log = <<"Failed to save verification result">>

\* C11: when the request is cancelled while gather is pending, every
\* analysis that has not completed is cancelled and never completes
\* afterwards, no VerificationResult is built, nothing is answered, and no
\* persistence is scheduled or performed.
C11_CancellationPropagates ==
    /\ [](pc = "cancelled" =>
            /\ \A i \in TaskIds : task[i].st \in {"done", "cancelled"}
            /\ \E i \in TaskIds : task[i].st = "cancelled"
            /\ response = NoResponse
            /\ background_tasks = <<>>
            /\ db = <<>>)
    /\ [][pc = "cancelled" => (pc' = pc /\ task' = task)]_vars

\* The request was cancelled after the satellite analysis had completed
\* and while the two others were in flight
C11_Witness ==
    /\ pc = "cancelled"
    /\ task[SATELLITE].st = "done"
    /\ task[FRAUD].st = "cancelled"
    /\ task[CARBON].st = "cancelled"

\* C24: in every VerificationResult fraud_risk_score = 1 - legitimacy_score,
\* and a positive verdict comes with an area confidence > 0.8, a
\* confidence_score > 0.7 and a fraud_risk_score < 0.2.
C24_VerdictBoundsScores ==
    pc = "returned" =>
        LET v == response.value
            risk == v.fraud_risk_score
        IN  /\ RAdd(risk, FraudResult.legitimacy_score) = <<1, 1>>
            /\ v.verification_status =>
                 /\ Above(SatelliteResult.confidence, 80)
                 /\ Above(v.confidence_score, 70)
                 /\ risk[1] * 100 < 20 * risk[2]

\* A positive verdict on a legitimacy score of 0.9: the fraud risk is 0.1
C24_Witness ==
    /\ pc = "returned"
    /\ response.value.verification_status
    /\ Exactly(FraudResult.legitimacy_score, 90)
    /\ Exactly(response.value.fraud_risk_score, 10)
    /\ Above(response.value.confidence_score, 70)

\* C25: when an analysis has raised, the verification fails with the error
\* of the first analysis that raised; the analyses still running are not
\* cancelled and can complete, and whatever they return changes neither
\* the response nor the persistence sink, and builds no VerificationResult.
C25_FailureLeavesOthersRunning ==
    /\ [](pc = "failed" =>
            /\ SomeRaised
            /\ response.raised
            /\ response.error = task[FirstRaised(task, order)].result.error
            /\ response.value = <<>>
            /\ background_tasks = <<>>
            /\ db = <<>>
            /\ \A i \in TaskIds : task[i].st \in {"running", "done", "raised"})
    /\ [][pc = "gather" /\ pc' = "failed" => task' = task]_vars
    /\ [][pc = "failed" =>
            /\ pc' = pc
            /\ response' = response
            /\ \A i \in TaskIds :
                    task'[i] # task[i]
                    => task[i].st = "running" /\ task'[i].st \in {"done", "raised"}]_vars

\* The legitimacy assessment raised first and the verification failed with
\* its error; the two other analyses then ran to completion
C25_Witness ==
    /\ pc = "failed"
    /\ order = <<FRAUD, SATELLITE, CARBON>>
    /\ task[FRAUD].st = "raised"
    /\ task[SATELLITE].st = "done"
    /\ task[CARBON].st = "done"
    /\ response.error = task[FRAUD].result.error
    /\ background_tasks = <<>>
    /\ db = <<>>

(***************************************************************************)
(* Claims on the engine lifecycle (SpecLife)                               *)
(***************************************************************************)
\* C6: once load_model has brought the predictor to Ready it stays Ready
\* after every later operation on it, a repeated load_model included.
C6_ReadyIsTerminal == [][CpReady => CpReady']_vars

\* C7: an unrecoverable error in either path of the predictor's
\* initialisation (the artifacts fail to load with an error other than a
\* missing file; or they are missing and the fallback training raises)
\* ends construction with a predictor in Failed: no error escapes, the
\* object exists and is_loaded() is false.
C7_InitErrorGivesFailed ==
    ( /\ last.engine = "cp"
      /\ last.op = "__init__"
      /\ \/ last.branch = "error"
         \/ last.branch = "create" /\ last.train # "ok" )
    => ( /\ ~last.raised
         /\ cp.phase = "live"
         /\ ~CarbonIsLoaded(cp) )

\* C8: for both engines, a load that found the artifact absent, synthesized
\* a model and became Ready, and whose write did not fail, leaves the
\* artifact on disk, so that a load made now takes the load branch.
C8_SynthesizedModelIsPersisted ==
    /\ ( /\ last.engine = "cp"
         /\ last.op \in {"__init__", "load_model"}
         /\ last.branch = "create"
         /\ last.write = "ok" )
       => ( /\ CpReady
            /\ \A t \in TrainOutcomes, d \in DumpOutcomes :
                    CarbonLoadModel(cp, fs, t, d).branch = "load" )
    /\ ( /\ last.engine = "sa"
         /\ last.op \in {"__init__", "load_model"}
         /\ last.branch = "create"
         /\ last.write # "failed" )
       => ( /\ SaReady
            /\ \A c \in CreateOutcomes :
                    SatelliteLoadModel(sa, fs, c).branch = "load" )

(***************************************************************************)
(* Claims on the inference entry points (SpecInfer)                        *)
(***************************************************************************)
InferenceOps ==
    {"estimate_co2_capture", "predict_capture", "analyze_single_image",
     "analyze_project_area", "temporal_analysis", "batch_analyze"}

ModelNotAvailable ==
    {"CNN model not loaded", "Carbon predictor model not loaded"}

\* The image provider of the call failed or gave no image
ProviderFailed(call) ==
    /\ call.op = "analyze_project_area"
    /\ call.arg.raised \/ call.arg.value = <<>>

\* C5: every inference entry point called on an engine that is not Ready
\* raises a model-not-available error and returns no value (calls whose
\* image provider failed before the engine was consulted are left aside).
C5_NotReadyRejects ==
    ( /\ last.op \in InferenceOps
      /\ ~last.ready
      /\ ~ProviderFailed(last) )
    => ( /\ last.raised
         /\ last.error \in ModelNotAvailable )

\* C9: batch_analyze on a Ready classifier returns one entry per image, in
\* input order: the error-tagged record exactly for the images whose
\* classification raises, a successful classification of that image
\* otherwise, also for the images that follow a failing one.
C9_BatchIsolatesFailures ==
    (last.op = "batch_analyze" /\ last.ready)
    => /\ ~last.raised
       /\ Len(last.value) = Len(last.arg)
       /\ \A i \in 1..Len(last.arg) :
            IF last.arg[i].malformed
            THEN last.value[i] = [error |-> "preprocess_image failed",
                                  vegetation_detected |-> FALSE,
                                  confidence |-> <<0, 1>>]
            ELSE /\ "error" \notin DOMAIN last.value[i]
                 /\ last.value[i].class_probabilities = last.arg[i].probs
                 /\ last.value[i].vegetation_coverage_percent = <<last.arg[i].cov, 1>>
                 /\ \A c \in 1..Len(last.arg[i].probs) :
                        last.value[i].confidence[1] * 100
                            >= last.arg[i].probs[c] * last.value[i].confidence[2]
                 /\ \E c \in 1..Len(last.arg[i].probs) :
                        last.value[i].confidence[1] * 100
                            = last.arg[i].probs[c] * last.value[i].confidence[2]
                 /\ last.value[i].vegetation_detected
                        = (last.value[i].confidence[1] * 100
                               > 70 * last.value[i].confidence[2])

\* A Ready classifier was given a batch whose first image fails and whose
\* second image does not
C9_Witness ==
    /\ last.op = "batch_analyze"
    /\ last.ready
    /\ Len(last.arg) >= 2
    /\ last.arg[1].malformed
    /\ ~last.arg[2].malformed
    /\ Len(last.value) = Len(last.arg)
\* C13: in every estimate estimate_co2_capture returns, the lower bound of
\* the confidence interval is >= 0, the upper bound is >= the point
\* estimate annual_co2_tonnes, and so lower <= upper.
C13_IntervalBracketsEstimate ==
    (last.op = "estimate_co2_capture" /\ ~last.raised)
    => LET ci == last.value.confidence_interval IN
       /\ RGe(ci.lower, RZero)
       /\ RGe(ci.upper, last.value.annual_co2_tonnes)
       /\ RLe(ci.lower, ci.upper)

\* C16: a temporal_analysis whose series has fewer than 2 points (one
\* point when end_date is less than 30 days after start_date, none when
\* start_date is after end_date) and whose images classify returns, without
\* raising, the trend "insufficient_data" with change_rate 0.0, and
\* images_analyzed is the number of points, 0 for the empty series.
C16_FewerThanTwoPointsIsInsufficientData ==
    ( /\ last.op = "temporal_analysis"
      /\ Len(TimeSeriesDates(last.arg.start_date, last.arg.end_date)) < 2
      /\ \A i \in 1..Len(last.arg.images) : ~last.arg.images[i].malformed
      /\ last.ready \/ last.arg.images = <<>> )
    => /\ ~last.raised
       /\ last.value.vegetation_trend
            = [trend |-> "insufficient_data", change_rate |-> <<0, 1>>]
       /\ last.value.images_analyzed = Len(last.arg.images)
       /\ last.arg.start_date > last.arg.end_date => last.value.images_analyzed = 0
       /\ last.arg.start_date <= last.arg.end_date => last.value.images_analyzed = 1

\* A series of one point: end_date is 15 days after start_date
C16_Witness ==
    /\ last.op = "temporal_analysis"
    /\ last.arg.start_date = 0
    /\ last.arg.end_date = 15
    /\ ~last.raised
    /\ last.value.images_analyzed = 1
    /\ last.value.vegetation_trend.trend = "insufficient_data"

\* C19: vegetation_detected of analyze_project_area is true exactly when
\* the mean confidence of the analysed images is > 0.8 and their mean
\* coverage is > 60; for an area of one image it implies that image's own
\* vegetation_detected (confidence > 0.7).
C19_AreaRuleIsStricter ==
    (last.op = "analyze_project_area" /\ ~last.raised)
    => LET d == last.value.detailed_analysis
           n == Len(d)
           confidences == RSum([i \in 1..n |-> d[i].confidence])
           coverages == RSum([i \in 1..n |-> d[i].vegetation_coverage_percent])
       IN  /\ n = Len(last.arg.value)
           /\ n >= 1
           /\ last.value.vegetation_detected
                = ( /\ confidences[1] * 100 > 80 * n * confidences[2]
                    /\ coverages[1] > 60 * n * coverages[2] )
           /\ \A i \in 1..n :
                d[i].vegetation_detected = Above(d[i].confidence, 70)
           /\ (n = 1 /\ last.value.vegetation_detected) => d[1].vegetation_detected

\* An area of one image whose confidence is exactly 0.8 and whose coverage
\* is 70: the image has vegetation detected, the area has not
C19_Witness ==
    /\ last.op = "analyze_project_area"
    /\ ~last.raised
    /\ last.value.images_analyzed = 1
    /\ Exactly(last.value.confidence, 80)
    /\ last.value.detailed_analysis[1].vegetation_detected
    /\ ~last.value.vegetation_detected

C22_AreaAnalysisIsAllOrNothing ==
    last.op = "analyze_project_area"
    => LET f == last.arg
           some_image_fails ==
               /\ ~f.raised
               /\ f.value # <<>>
               /\ \/ ~last.ready
                  \/ \E i \in 1..Len(f.value) : f.value[i].malformed
       IN  /\ last.raised <=> (f.raised \/ f.value = <<>> \/ some_image_fails)
           /\ last.raised => last.value = <<>>
           /\ f.raised => last.error = f.error
           /\ (~f.raised /\ f.value = <<>>)
                => last.error = "No satellite images available for the specified area"
           /\ some_image_fails
                => last.error \in {"CNN model not loaded", "preprocess_image failed"}
           /\ ~last.raised
                => /\ last.value.images_analyzed = Len(f.value)
                   /\ Len(last.value.detailed_analysis) = Len(f.value)

\* A Ready classifier was given an area of two images; the first
\* classifies, the second cannot be preprocessed, and the call raised
C22_Witness ==
    /\ last.op = "analyze_project_area"
    /\ last.ready
    /\ ~last.arg.raised
    /\ Len(last.arg.value) = 2
    /\ ~last.arg.value[1].malformed
    /\ last.arg.value[2].malformed
    /\ last.raised
    /\ last.value = <<>>

(***************************************************************************)
(* Claims on the engines' computations (SpecPure)                          *)
(***************************************************************************)
\* C12: the feasibility score _calculate_feasibility returns is in [0,1]
\* for every feature vector and every prediction.
C12_FeasibilityInUnitInterval ==
    last.op = "_calculate_feasibility"
    => /\ RGe(last.value, RZero)
       /\ RLe(last.value, ROne)

\* C14: for a horizon of 360 days or more the breakdown has 12 records,
\* their monthly tonnes sum to annual_tonnes * 11.3 / 12, and the
\* cumulative total of the last record is that sum.
C14_TwelveMonthsSumToScaledAnnual ==
    ( /\ last.op = "_calculate_monthly_breakdown"
      /\ last.arg.timeframe_days >= 360 )
    => LET m == last.value
           total == RSum([i \in 1..Len(m) |-> m[i].co2_capture_tonnes])
       IN  /\ Len(m) = 12
           /\ \A i \in 1..12 : m[i].month = i
           /\ total = RMul(last.arg.annual_co2, Rat(113, 120))
           /\ m[12].cumulative_co2 = total

\* The default horizon of 365 days on an annual estimate of 120 tonnes:
\* the twelve months sum to 113 tonnes
C14_Witness ==
    /\ last.op = "_calculate_monthly_breakdown"
    /\ last.arg.timeframe_days = 365
    /\ last.arg.annual_co2 = <<120, 1>>
    /\ Len(last.value) = 12
    /\ last.value[12].cumulative_co2 = <<113, 1>>

\* C15: _calculate_vegetation_trend gives "increasing" for the coverages
\* [40,45,50,55] at every equal day spacing, "stable" for [50,50,50], in
\* general "increasing" for a slope > 1.0, "decreasing" for a slope < -1.0
\* and "stable" otherwise, with total_change = final - initial coverage.
C15_TrendClassification ==
    ( /\ last.op = "_calculate_vegetation_trend"
      /\ Len(last.arg.coverages) >= 2 )
    => LET c == last.arg.coverages
           v == last.value
       IN  /\ c = <<40, 45, 50, 55>> => v.trend = "increasing"
           /\ c = <<50, 50, 50>> => v.trend = "stable"
           /\ v.trend = "increasing" <=> RGt(v.change_rate, ROne)
           /\ v.trend = "decreasing" <=> RLt(v.change_rate, <<-1, 1>>)
           /\ v.trend \in {"increasing", "decreasing", "stable"}
           /\ v.total_change = <<c[Len(c)] - c[1], 1>>

\* Sum over the images and the classes of weight[class] * P(class)
RECURSIVE MassOf(_, _)
MassOf(results, weight) ==
    IF results = <<>> THEN 0
    ELSE LET q == Head(results).class_probabilities IN
         weight[1] * q[1] + weight[2] * q[2] + weight[3] * q[3] + weight[4] * q[4]
           + weight[5] * q[5] + weight[6] * q[6] + weight[7] * q[7]
           + MassOf(Tail(results), weight)

\* C17: _calculate_co2_potential returns max(0, area * W * coverage / 100)
\* with W the factor-weighted probability mass over the total probability
\* mass (0 for no mass), the negative deforestation factor included in W:
\* a fully covered 10 ha area classified 100% forest gives 100, and forest
\* 0.5 with deforestation 0.5 gives W = 2.5.
C17_CO2PotentialFormula ==
    last.op = "_calculate_co2_potential"
    => LET a == last.arg.area_hectares
           cov == last.arg.vegetation_coverage
           r == last.arg.analysis_results
           num == MassOf(r, <<0, 1, 3, 6, 10, -5, 8>>)
           den == MassOf(r, <<1, 1, 1, 1, 1, 1, 1>>)
           \* area * W * coverage / 100 as the fraction pn / pd
           pn == a * num * cov[1]
           pd == den * 100 * cov[2]
       IN  /\ RGe(last.value, RZero)
           /\ den = 0 => last.value = <<0, 1>>
           /\ (den > 0 /\ pn >= 0) => last.value[1] * pd = pn * last.value[2]
           /\ (den > 0 /\ pn < 0) => last.value = <<0, 1>>
           /\ ( /\ a = 10 /\ cov = <<100, 1>>
                /\ \A i \in 1..Len(r) : r[i].class_probabilities = ProbForest )
              => last.value = <<100, 1>>
           /\ ( /\ a = 10 /\ cov = <<100, 1>>
                /\ \A i \in 1..Len(r) : r[i].class_probabilities = ProbForestHalfCleared )
              => last.value = <<25, 1>>

\* One image of forest and one of deforestation over a fully covered
\* 10 ha area: W = (10 - 5) / 2 = 2.5 and the potential is 25
C17_Witness ==
    /\ last.op = "_calculate_co2_potential"
    /\ last.arg.area_hectares = 10
    /\ last.arg.vegetation_coverage = <<100, 1>>
    /\ Len(last.arg.analysis_results) = 2
    /\ last.arg.analysis_results[1].class_probabilities = ProbForest
    /\ last.arg.analysis_results[2].class_probabilities = ProbCleared
    /\ last.value = <<25, 1>>

\* C18: _calculate_vegetation_coverage returns, for every image tensor, a
\* number in [0,100]: the percentage of the pixels whose index exceeds
\* 0.2, and 0.0 when the tensor cannot be read as an RGB image.
C18_CoverageInRange ==
    last.op = "_calculate_vegetation_coverage"
    => /\ ~last.raised
       /\ last.value # NaN
       /\ RGe(last.value, RZero)
       /\ RLe(last.value, <<100, 1>>)
       /\ (last.arg.ndim # 3 \/ last.arg.channels \notin {3, 4})
            => last.value = <<0, 1>>

\* C20: _generate_recommendation gives the first tier, in the order
\* excellent, good, average, whose two strict thresholds (feasibility >
\* 0.8 / 0.6 / 0.4 and prediction > 100 / 50 / 20) both hold, and poor when
\* none does: one tier per pair.
C20_RecommendationTiers ==
    last.op = "_generate_recommendation"
    => LET f == last.arg.feasibility
           y == last.arg.prediction
           excellent == Above(f, 80) /\ y[1] > 100 * y[2]
           good == Above(f, 60) /\ y[1] > 50 * y[2]
           average == Above(f, 40) /\ y[1] > 20 * y[2]
       IN  /\ last.value \in {"excellent", "good", "average", "poor"}
           /\ last.value = "excellent" <=> excellent
           /\ last.value = "good" <=> (~excellent /\ good)
           /\ last.value = "average" <=> (~excellent /\ ~good /\ average)
           /\ last.value = "poor" <=> (~excellent /\ ~good /\ ~average)

\* Feasibility 0.81 with a prediction of exactly 100: the excellent tier
\* fails on the prediction and the pair falls to good
C20_Witness ==
    /\ last.op = "_generate_recommendation"
    /\ last.arg.feasibility = Pct(81)
    /\ last.arg.prediction = <<100, 1>>
    /\ last.value = "good"

\* C23: the monthly breakdown has min(timeframe_days div 30, 12) records,
\* none below 30 days, numbered from 1 in order; record m carries the m-th
\* entry of the seasonal table, annual / 12 times that entry, and the sum
\* of the tonnes of records 1..m, which does not decrease when the annual
\* estimate is >= 0.
C23_MonthlyRecords ==
    last.op = "_calculate_monthly_breakdown"
    => LET d == last.arg.timeframe_days
           y == last.arg.annual_co2
           m == last.value
           n == IF d < 30 THEN 0 ELSE IF d \div 30 < 12 THEN d \div 30 ELSE 12
           table == <<Rat(6, 10), Rat(7, 10), Rat(9, 10), Rat(12, 10),
                      Rat(14, 10), Rat(13, 10), Rat(12, 10), Rat(11, 10),
                      Rat(10, 10), Rat(8, 10), Rat(6, 10), Rat(5, 10)>>
       IN  /\ Len(m) = n
           /\ \A i \in 1..n :
                /\ m[i].month = i
                /\ m[i].seasonal_factor = table[i]
                /\ m[i].co2_capture_tonnes[1] * (12 * y[2] * table[i][2])
                     = y[1] * table[i][1] * m[i].co2_capture_tonnes[2]
                /\ m[i].cumulative_co2
                     = RSum([j \in 1..i |-> m[j].co2_capture_tonnes])
                /\ (i > 1 /\ y[1] >= 0)
                     => AtMost(m[i - 1].cumulative_co2, m[i].cumulative_co2)

\* A horizon of 90 days on an annual estimate of 120 tonnes: three
\* records, of 6, 7 and 9 tonnes, the last with a cumulative of 22
C23_Witness ==
    /\ last.op = "_calculate_monthly_breakdown"
    /\ last.arg.timeframe_days = 90
    /\ last.arg.annual_co2 = <<120, 1>>
    /\ Len(last.value) = 3
    /\ last.value[3].co2_capture_tonnes = <<9, 1>>
    /\ last.value[3].cumulative_co2 = <<22, 1>>
====
